---- MODULE Spec2Model ----
(***************************************************************************)
(* unicorn-bios: the Machine facade (UB/Machine.cpp), its interrupt        *)
(* dispatcher and the INT 13h disk services (UB/BIOS/Disk.cpp).            *)
(*                                                                         *)
(* Spec      one Machine built by Machine(memory, fat); the guest sets     *)
(*           registers, stores a DAP and raises interrupts.                *)
(* SpecLife  the life cycle of Machine objects: construction, copy, move,  *)
(*           assignment, swap and destruction.                             *)
(***************************************************************************)
EXTENDS Integers, Sequences, FiniteSets, TLC

VARIABLES memory, fat, mem, regs, registered, started, steps, last,
          machines, impls, engines, lastLife

vars == <<memory, fat, mem, regs, registered, started, steps, last,
          machines, impls, engines, lastLife>>

biosVars == <<memory, fat, mem, regs, registered, started, steps, last>>
lifeVars == <<machines, impls, engines, lastLife>>

----------------------------------------------------------------------------
(* Bounds *)

\* number of interrupts the guest raises (each with its register set-up)
MaxSteps == 1

\* number of Machine objects ever created in SpecLife
MaxMachines == 3

----------------------------------------------------------------------------
(* Program constants *)

BootAddress == 31744        \* 0x7C00, Machine::start
DefaultBytesPerSector == 512
DAPDataSize == 16
BootSectorSize == 512

----------------------------------------------------------------------------
(* 64-bit unsigned integers, as 8 little-endian bytes *)

RECURSIVE MulLimbs(_, _, _, _)
\* limbs i..8 of a * b + carry, the carry out of limb 8 dropped (uint64_t)
MulLimbs(a, b, i, carry) ==
    IF i > 8 THEN <<>>
    ELSE LET t == a[i] * b + carry
         IN  <<t % 256>> \o MulLimbs(a, b, i + 1, t \div 256)

RECURSIVE MulCarry(_, _, _, _)
\* the carry out of limb 8 of a * b: what uint64_t arithmetic loses
MulCarry(a, b, i, carry) ==
    IF i > 8 THEN carry
    ELSE MulCarry(a, b, i + 1, (a[i] * b + carry) \div 256)

\* uint64_t * uint64_t, the right operand below 2^16
Mul64(a, b) == MulLimbs(a, b, 1, 0)

\* the product as a mathematical integer fits 64 bits
MulExact(a, b) == MulCarry(a, b, 1, 0) = 0

\* a value below 2^24
IsSmall(u) == \A i \in 4..8 : u[i] = 0
ValueOf(u) == u[1] + 256 * u[2] + 65536 * u[3]

----------------------------------------------------------------------------
(* The FAT image (external parser; geometry and raw reads are consumed) *)

ImgA == [name |-> "A", valid |-> TRUE,  bytesPerSector |-> 4,
         sectorsPerTrack |-> 2,  numberOfHeads |-> 2, len |-> 32]
ImgB == [name |-> "B", valid |-> FALSE, bytesPerSector |-> 0,
         sectorsPerTrack |-> 18, numberOfHeads |-> 2, len |-> 1030]
Images == {ImgA, ImgB}

\* byte k of the image file; never zero, and different from sector to sector
ImgByte(img, k) == 1 + ((k * 7 + (k \div 4) * 3 + (k \div 256) * 11) % 255)

\* the answers of a read that starts inside the image and runs past its end
ReadOutcomes == {"short", "empty"}

\* Image::read( offset, size ), offset a plain number
ImageReadAt(img, off, size, pick) ==
    IF size = 0 \/ off >= img.len THEN <<>>
    ELSE IF off + size <= img.len
         THEN [k \in 1..size |-> ImgByte(img, off + k - 1)]
         ELSE IF pick = "empty" THEN <<>>
              ELSE [k \in 1..(img.len - off) |-> ImgByte(img, off + k - 1)]

\* Image::read( offset, size ), offset a uint64_t
ImageRead(img, off, size, pick) ==
    IF IsSmall(off) THEN ImageReadAt(img, ValueOf(off), size, pick) ELSE <<>>

\* the sector size the image itself reads with
ImageBytesPerSector(img) ==
    IF img.valid THEN img.bytesPerSector ELSE DefaultBytesPerSector

\* FAT::chsToLBA( mbr, cylinder, sector, head )
chsToLBA(img, cylinder, sector, head) ==
    (cylinder * img.numberOfHeads + head) * img.sectorsPerTrack + (sector - 1)

\* Image::read( cylinder, head, sector, count )
ImageReadCHS(img, cylinder, head, sector, count, pick) ==
    IF sector = 0 THEN <<>>
    ELSE ImageReadAt(img,
                     chsToLBA(img, cylinder, sector, head) * ImageBytesPerSector(img),
                     count * ImageBytesPerSector(img), pick)

----------------------------------------------------------------------------
(* The engine: registers and guest memory *)

\* guest memory is zero where nothing else was stored: mem holds the
\* non-zero bytes only
Peek(m, a) == IF a \in DOMAIN m THEN m[a] ELSE 0

\* Engine::getAddress( segment, offset )
getAddress(seg, off) == seg * 16 + off

\* Engine::read( address, size )
EngineRead(m, addr, n) == [k \in 1..n |-> Peek(m, addr + k - 1)]

\* Engine::write( address, bytes )
EngineWrite(m, dest, bytes) ==
    LET touched == dest..(dest + Len(bytes) - 1)
        val(a)  == IF a \in touched THEN bytes[a - dest + 1] ELSE m[a]
    IN  [a \in {x \in (DOMAIN m) \cup touched : val(x) # 0} |-> val(a)]

EmptyMem == [a \in {} |-> 0]

ZeroRegs == [ah |-> 0, al |-> 0, bx |-> 0, ch |-> 0, cl |-> 0, dh |-> 0,
             dl |-> 0, es |-> 0, ds |-> 0, si |-> 0, cf |-> 0]

----------------------------------------------------------------------------
(* The Disk Address Packet *)

\* FAT::DAP( stream ): the packed little-endian layout
ParseDAP(b) ==
    [size               |-> b[1],
     zero               |-> b[2],
     numberOfSectors    |-> b[3] + 256 * b[4],
     destinationOffset  |-> b[5] + 256 * b[6],
     destinationSegment |-> b[7] + 256 * b[8],
     logicalBlockAddress |-> <<b[9], b[10], b[11], b[12], b[13], b[14], b[15], b[16]>>]

\* what guest code stores before INT 13h / AH=42h
EncodeDAP(n, seg, off, lba) ==
    <<16, 0, n % 256, n \div 256, off % 256, off \div 256,
      seg % 256, seg \div 256>> \o lba

----------------------------------------------------------------------------
(* UB::BIOS::Disk *)

\* what a handler leaves behind: registers, memory, the image reads it
\* requested, the bytes it got and the stores it made
Outcome(r, m, req, res, wr, ok) ==
    [regs |-> r, mem |-> m, req |-> req, res |-> res, wr |-> wr, ok |-> ok]

\* Disk::reset
reset(r, m) ==
    Outcome([r EXCEPT !.cf = 0, !.ah = 0], m, <<>>, <<>>, <<>>, TRUE)

\* the error label of readSectors without engine.al( 0 )
readSectorsError_KeepAL(r, m, req) ==
    Outcome([r EXCEPT !.cf = 1, !.ah = 1], m, req, <<>>, <<>>, FALSE)

\* Disk::readSectors, label error
readSectorsError(r, m, req) ==
    Outcome([r EXCEPT !.cf = 1, !.ah = 1, !.al = 0], m, req, <<>>, <<>>, FALSE)

\* Disk::readSectors
readSectors(r, m, img, pick) ==
    LET driveNumber == r.dl
        sectors     == r.al
        cylinder    == r.ch
        sector      == r.cl
        head        == r.dh
        destination == getAddress(r.es, r.bx)
        req   == <<[kind |-> "chs", cylinder |-> cylinder, head |-> head,
                    sector |-> sector, count |-> sectors]>>
        bytes == ImageReadCHS(img, cylinder, head, sector, sectors, pick)
    IN  IF driveNumber # 0 THEN readSectorsError(r, m, <<>>)
        ELSE IF Len(bytes) = 0 THEN readSectorsError(r, m, req)
        ELSE Outcome([r EXCEPT !.cf = 0, !.ah = 0, !.al = sectors],
                     EngineWrite(m, destination, bytes), req, bytes,
                     <<[dest |-> destination, len |-> Len(bytes)]>>, TRUE)

\* Disk::checkExtensions
checkExtensions(r, m) ==
    Outcome([r EXCEPT !.bx = 43605, !.cf = 0, !.ah = 0, !.ch = 0, !.cl = 7],
            m, <<>>, <<>>, <<>>, TRUE)

\* Disk::extendedReadSectors, label error
extendedReadSectorsError(r, m, req) ==
    Outcome([r EXCEPT !.cf = 1, !.ah = 1], m, req, <<>>, <<>>, FALSE)

\* extendedReadSectors with the store moved in front of the drive check
extendedReadSectors_WriteFirst(r, m, img, pick) ==
    LET dap         == ParseDAP(EngineRead(m, getAddress(r.ds, r.si), DAPDataSize))
        destination == getAddress(dap.destinationSegment, dap.destinationOffset)
        bytesPerSector == IF img.valid THEN img.bytesPerSector
                                       ELSE DefaultBytesPerSector
        offset == Mul64(dap.logicalBlockAddress, bytesPerSector)
        size   == dap.numberOfSectors * bytesPerSector
        req    == <<[kind |-> "lba", lba |-> dap.logicalBlockAddress,
                     bytesPerSector |-> bytesPerSector,
                     numberOfSectors |-> dap.numberOfSectors,
                     offset |-> offset, size |-> size]>>
        bytes  == ImageRead(img, offset, size, pick)
        stored == EngineWrite(m, destination, bytes)
    IN  IF r.dl # 0 \/ Len(bytes) = 0
        THEN Outcome([r EXCEPT !.cf = 1, !.ah = 1], stored, req, <<>>, <<>>, FALSE)
        ELSE Outcome([r EXCEPT !.cf = 0, !.ah = 0], stored, req, bytes,
                     <<[dest |-> destination, len |-> Len(bytes)]>>, TRUE)

\* Disk::extendedReadSectors
extendedReadSectors(r, m, img, pick) ==
    LET driveNumber == r.dl
        dapAddress  == getAddress(r.ds, r.si)
        dap         == ParseDAP(EngineRead(m, dapAddress, DAPDataSize))
        destination == getAddress(dap.destinationSegment, dap.destinationOffset)
        numberOfSectors == dap.numberOfSectors
        bytesPerSector  == IF img.valid THEN img.bytesPerSector
                                        ELSE DefaultBytesPerSector
        offset == Mul64(dap.logicalBlockAddress, bytesPerSector)
        size   == numberOfSectors * bytesPerSector
        req    == <<[kind |-> "lba", lba |-> dap.logicalBlockAddress,
                     bytesPerSector |-> bytesPerSector,
                     numberOfSectors |-> numberOfSectors,
                     offset |-> offset, size |-> size]>>
        bytes  == ImageRead(img, offset, size, pick)
    IN  IF driveNumber # 0 THEN extendedReadSectorsError(r, m, <<>>)
        ELSE IF Len(bytes) = 0 THEN extendedReadSectorsError(r, m, req)
        ELSE Outcome([r EXCEPT !.cf = 0, !.ah = 0],
                     EngineWrite(m, destination, bytes), req, bytes,
                     <<[dest |-> destination, len |-> Len(bytes)]>>, TRUE)

----------------------------------------------------------------------------
(* UB::Interrupts *)

\* the INT 13h function a value of AH selects
DiskFunction(ah) ==
    CASE ah = 0  -> "reset"
      [] ah = 2  -> "readSectors"
      [] ah = 65 -> "checkExtensions"
      [] ah = 66 -> "extendedReadSectors"
      [] OTHER   -> "unsupported"

\* Interrupts::int0x13
int0x13(r, m, img, pick) ==
    CASE r.ah = 0  -> reset(r, m)
      [] r.ah = 2  -> readSectors(r, m, img, pick)
      [] r.ah = 65 -> checkExtensions(r, m)
      [] r.ah = 66 -> extendedReadSectors(r, m, img, pick)
      [] OTHER     -> Outcome([r EXCEPT !.cf = 1, !.ah = 134], m,
                              <<>>, <<>>, <<>>, FALSE)

\* Interrupts::int0x12: AX = 640
int0x12(r, m) ==
    Outcome([r EXCEPT !.ah = 2, !.al = 128, !.cf = 0], m, <<>>, <<>>, <<>>, TRUE)

\* the handler of vector h, run on the engine
Handler(h, r, m, img, pick) ==
    CASE h = 19 -> int0x13(r, m, img, pick)
      [] h = 18 -> int0x12(r, m)
      [] OTHER  -> Outcome(r, m, <<>>, <<>>, <<>>, TRUE)

----------------------------------------------------------------------------
(* UB::Machine *)

\* the switch with the case label 0x1A left out
Dispatcher_NoRTC(i) ==
    IF i \in {5, 16, 17, 18, 19, 20, 21, 22, 23, 24, 25} THEN i ELSE 0

\* the switch of the callback Machine::IMPL::_setup registers: the vector
\* whose handler runs, 0 for the default label
Dispatcher(i) ==
    CASE i = 5  -> 5
      [] i = 16 -> 16
      [] i = 17 -> 17
      [] i = 18 -> 18
      [] i = 19 -> 19
      [] i = 20 -> 20
      [] i = 21 -> 21
      [] i = 22 -> 22
      [] i = 23 -> 23
      [] i = 24 -> 24
      [] i = 25 -> 25
      [] i = 26 -> 26
      [] OTHER  -> 0

\* the engine after Engine( memory ): nothing stored
EngineInit(size) == EmptyMem

\* guest memory after Machine( memory, fat ): IMPL::IMPL builds the engine
\* from the memory size alone, and the constructor then only calls _setup
MachineInitMem(size, img) == EngineInit(size)

\* one call of the registered callback: ( i, engine ) -> bool
Callback(i, r, m, img, pick) ==
    LET h == Dispatcher(i)
    IN  [handlers |-> IF h = 0 THEN <<>> ELSE <<h>>,
         ret      |-> h # 0,
         out      |-> IF h = 0 THEN Outcome(r, m, <<>>, <<>>, <<>>, FALSE)
                               ELSE Handler(h, r, m, img, pick)]

----------------------------------------------------------------------------
(* Inputs of the guest program *)

MemorySizes == {65536, 1048576}               \* 64 KiB, 1 MiB
Drives      == {0, 128}
SectorCounts == {0, 1, 2}
CHS         == {<<0, 0, 2>>, <<1, 1, 2>>}     \* cylinder, head, sector
Buffers     == {<<4096, 0>>, <<65535, 65535>>} \* segment, offset
DAPAddress  == <<0, 1280>>                    \* DS:SI = 0000:0500
LBAs        == {<<1, 0, 0, 0, 0, 0, 0, 0>>,    \* 1
                <<0, 0, 0, 0, 0, 0, 128, 0>>,  \* 2^55
                <<0, 0, 0, 0, 0, 0, 0, 64>>}   \* 2^62
DAPSectorCounts == {1, 2}
RecognisedOther == {5, 16, 17, 18, 20, 21, 22, 23, 24, 25, 26}
Unrecognised    == {0, 4, 6, 15, 27, 33, 255}
UnsupportedAH   == {3, 153}

NoCall == [kind |-> "none", vec |-> 0, ret |-> FALSE, handlers |-> <<>>,
           fn |-> "none", inp |-> ZeroRegs, memIn |-> EmptyMem, req |-> <<>>, res |-> <<>>,
           wr |-> <<>>, ok |-> FALSE]

----------------------------------------------------------------------------
(* Spec: one machine, built by Machine( memory, fat ) *)

Init ==
    /\ memory \in MemorySizes
    /\ fat \in Images
    /\ mem = MachineInitMem(memory, fat)
    /\ regs = ZeroRegs
    /\ registered = TRUE
    /\ started = FALSE
    /\ steps = 0
    /\ last = NoCall
    /\ machines = <<>>
    /\ impls = <<>>
    /\ engines = <<>>
    /\ lastLife = [op |-> "none", src |-> 0, dst |-> 0]

\* Machine::start
Start ==
    /\ ~started
    /\ started' = TRUE
    /\ last' = [NoCall EXCEPT !.kind = "start", !.vec = BootAddress]
    /\ UNCHANGED <<memory, fat, mem, regs, registered, steps>>
    /\ UNCHANGED lifeVars

\* the guest has loaded the registers r and left m in memory; INT i
Deliver(i, r, m, pick) ==
    /\ started
    /\ registered
    /\ steps < MaxSteps
    /\ \E c \in {Callback(i, r, m, fat, pick)} :
        /\ steps' = steps + 1
        /\ regs' = c.out.regs
        /\ mem' = c.out.mem
        /\ last' = [kind |-> "int", vec |-> i, ret |-> c.ret,
                    handlers |-> c.handlers,
                    fn |-> IF Dispatcher(i) = 19 THEN DiskFunction(r.ah) ELSE "none",
                    inp |-> r, memIn |-> m, req |-> c.out.req, res |-> c.out.res,
                    wr |-> c.out.wr, ok |-> c.out.ok]
    /\ UNCHANGED <<memory, fat, registered, started>>
    /\ UNCHANGED lifeVars

\* INT 13h, AH=00h
IntReset ==
    \E dl \in Drives :
        Deliver(19, [regs EXCEPT !.ah = 0, !.dl = dl], mem, "short")

\* INT 13h, AH=02h
IntReadSectors ==
    \E dl \in Drives, al \in SectorCounts, chs \in CHS, buf \in Buffers,
       pick \in ReadOutcomes :
        Deliver(19, [regs EXCEPT !.ah = 2, !.al = al, !.ch = chs[1],
                                 !.dh = chs[2], !.cl = chs[3], !.dl = dl,
                                 !.es = buf[1], !.bx = buf[2]],
                mem, pick)

\* INT 13h, AH=41h
IntCheckExtensions ==
    \E dl \in Drives :
        Deliver(19, [regs EXCEPT !.ah = 65, !.bx = 21930, !.dl = dl], mem, "short")

\* the guest stores a DAP at DS:SI, then INT 13h, AH=42h
IntExtendedReadSectors ==
    \E dl \in Drives, al \in {0, 7}, n \in DAPSectorCounts, buf \in Buffers,
       lba \in LBAs, pick \in ReadOutcomes :
        Deliver(19, [regs EXCEPT !.ah = 66, !.al = al, !.dl = dl,
                                 !.ds = DAPAddress[1], !.si = DAPAddress[2]],
                EngineWrite(mem, getAddress(DAPAddress[1], DAPAddress[2]),
                            EncodeDAP(n, buf[1], buf[2], lba)),
                pick)

\* INT 13h with a function number the disk services do not know
IntDiskUnsupported ==
    \E ah \in UnsupportedAH :
        Deliver(19, [regs EXCEPT !.ah = ah], mem, "short")

\* INT n for the other vectors the dispatcher knows
IntOther ==
    \E i \in RecognisedOther : Deliver(i, regs, mem, "short")

\* INT n for a vector the dispatcher does not know
IntUnhandled ==
    \E i \in Unrecognised, al \in {0, 7} :
        Deliver(i, [regs EXCEPT !.al = al], mem, "short")

Next ==
    \/ Start
    \/ IntReset
    \/ IntReadSectors
    \/ IntCheckExtensions
    \/ IntExtendedReadSectors
    \/ IntDiskUnsupported
    \/ IntOther
    \/ IntUnhandled

Spec == Init /\ [][Next]_vars

----------------------------------------------------------------------------
(* SpecLife: Machine objects, their IMPLs and the engines inside them *)

\* the heap: Machine objects, IMPL objects (held by unique_ptr, 0 is the
\* null pointer) and engines; cb is the Machine the callback captured
Heap(ms, is, es) == [machines |-> ms, impls |-> is, engines |-> es]

EngineOf(h, m) == h.impls[h.machines[m].impl].engine

HasImpl(h, m) ==
    /\ m \in 1..Len(h.machines)
    /\ h.machines[m].alive
    /\ h.machines[m].impl # 0

\* Machine::IMPL::IMPL( memory, fat ): _engine( memory )
IMPLNew(h, size, img) ==
    LET e == Len(h.engines) + 1
    IN  Heap(h.machines,
             Append(h.impls, [alive |-> TRUE, memory |-> size, fat |-> img,
                              engine |-> e]),
             Append(h.engines, [alive |-> TRUE, size |-> size, cb |-> 0,
                                data |-> 0]))

\* a copy constructor that shares the engine of o instead of building one
IMPLCopy_SharedEngine(h, o) ==
    Heap(h.machines,
         Append(h.impls, [alive |-> TRUE, memory |-> h.impls[o].memory,
                          fat |-> h.impls[o].fat, engine |-> h.impls[o].engine]),
         h.engines)

\* Machine::IMPL::IMPL( const IMPL & o ): _engine( o._memory )
IMPLCopy(h, o) ==
    LET e == Len(h.engines) + 1
    IN  Heap(h.machines,
             Append(h.impls, [alive |-> TRUE, memory |-> h.impls[o].memory,
                              fat |-> h.impls[o].fat, engine |-> e]),
             Append(h.engines, [alive |-> TRUE, size |-> h.impls[o].memory,
                                cb |-> 0, data |-> 0]))

\* Machine::IMPL::_setup( machine ): the callback captures machine by reference
Setup(h, p, m) ==
    Heap(h.machines, h.impls,
         [h.engines EXCEPT ![h.impls[p].engine].cb = m])

\* Machine::Machine( memory, fat )
MachineNew(h, size, img) ==
    LET m  == Len(h.machines) + 1
        h1 == IMPLNew(h, size, img)
        p  == Len(h1.impls)
        h2 == Heap(Append(h1.machines, [alive |-> TRUE, impl |-> p]),
                   h1.impls, h1.engines)
    IN  Setup(h2, p, m)

\* Machine::Machine( const Machine & o )
MachineCopy(h, o) ==
    LET m  == Len(h.machines) + 1
        h1 == IMPLCopy(h, h.machines[o].impl)
        p  == Len(h1.impls)
        h2 == Heap(Append(h1.machines, [alive |-> TRUE, impl |-> p]),
                   h1.impls, h1.engines)
    IN  Setup(h2, p, m)

\* Machine::Machine( Machine && o ): impl( std::move( o.impl ) )
MachineMove(h, o) ==
    Heap(Append([h.machines EXCEPT ![o].impl = 0],
                [alive |-> TRUE, impl |-> h.machines[o].impl]),
         h.impls, h.engines)

\* Machine::~Machine: the unique_ptr deletes the IMPL and its engine
MachineDelete(h, m) ==
    LET p == h.machines[m].impl
    IN  Heap([h.machines EXCEPT ![m] = [alive |-> FALSE, impl |-> 0]],
             IF p = 0 THEN h.impls ELSE [h.impls EXCEPT ![p].alive = FALSE],
             IF p = 0 THEN h.engines
             ELSE [h.engines EXCEPT ![h.impls[p].engine].alive = FALSE])

\* swap( Machine &, Machine & )
MachineSwap(h, a, b) ==
    Heap([h.machines EXCEPT ![a].impl = h.machines[b].impl,
                            ![b].impl = h.machines[a].impl],
         h.impls, h.engines)

\* Machine::operator =( Machine o ): o is built from the argument, swapped
\* with *this and destroyed on return
MachineAssign(h, this, arg, moved) ==
    LET o  == Len(h.machines) + 1
        h1 == IF moved THEN MachineMove(h, arg) ELSE MachineCopy(h, arg)
        h2 == MachineSwap(h1, this, o)
    IN  MachineDelete(h2, o)

\* the ( memory, fat ) arguments Machine objects are built with
LifeConfigs == {<<65536, ImgA>>, <<1048576, ImgB>>}
EngineData == {1}

TheHeap == Heap(machines, impls, engines)

Alive(h, m) == m \in 1..Len(h.machines) /\ h.machines[m].alive

SetHeap(h, op, src, dst) ==
    /\ machines' = h.machines
    /\ impls' = h.impls
    /\ engines' = h.engines
    /\ lastLife' = [op |-> op, src |-> src, dst |-> dst]
    /\ UNCHANGED biosVars

InitLife ==
    /\ memory = 0
    /\ fat = ImgA
    /\ mem = EmptyMem
    /\ regs = ZeroRegs
    /\ registered = FALSE
    /\ started = FALSE
    /\ steps = 0
    /\ last = NoCall
    /\ machines = <<>>
    /\ impls = <<>>
    /\ engines = <<>>
    /\ lastLife = [op |-> "none", src |-> 0, dst |-> 0]

Construct ==
    /\ Len(machines) < MaxMachines
    /\ \E cfg \in LifeConfigs :
        SetHeap(MachineNew(TheHeap, cfg[1], cfg[2]), "new", 0, Len(machines) + 1)

CopyConstruct ==
    /\ Len(machines) < MaxMachines
    /\ \E o \in 1..Len(machines) :
        /\ HasImpl(TheHeap, o)
        /\ SetHeap(MachineCopy(TheHeap, o), "copy", o, Len(machines) + 1)

MoveConstruct ==
    /\ Len(machines) < MaxMachines
    /\ \E o \in 1..Len(machines) :
        /\ Alive(TheHeap, o)
        /\ SetHeap(MachineMove(TheHeap, o), "move", o, Len(machines) + 1)

Destroy ==
    \E m \in 1..Len(machines) :
        /\ Alive(TheHeap, m)
        /\ SetHeap(MachineDelete(TheHeap, m), "delete", m, 0)

AssignCopy ==
    /\ Len(machines) < MaxMachines
    /\ \E this \in 1..Len(machines), arg \in 1..Len(machines) :
        /\ Alive(TheHeap, this)
        /\ HasImpl(TheHeap, arg)
        /\ SetHeap(MachineAssign(TheHeap, this, arg, FALSE), "assign", arg, this)

AssignMove ==
    /\ Len(machines) < MaxMachines
    /\ \E this \in 1..Len(machines), arg \in 1..Len(machines) :
        /\ Alive(TheHeap, this)
        /\ Alive(TheHeap, arg)
        /\ SetHeap(MachineAssign(TheHeap, this, arg, TRUE), "assignmove", arg, this)

SwapMachines ==
    \E a \in 1..Len(machines), b \in 1..Len(machines) :
        /\ Alive(TheHeap, a)
        /\ Alive(TheHeap, b)
        /\ a # b
        /\ SetHeap(MachineSwap(TheHeap, a, b), "swap", a, b)

\* guest execution on the engine of machine m changes a register or memory
EngineTouch ==
    \E m \in 1..Len(machines), v \in EngineData :
        /\ HasImpl(TheHeap, m)
        /\ engines[EngineOf(TheHeap, m)].data # v
        /\ SetHeap(Heap(machines, impls,
                        [engines EXCEPT ![EngineOf(TheHeap, m)].data = v]),
                   "touch", m, 0)

NextLife ==
    \/ Construct
    \/ CopyConstruct
    \/ MoveConstruct
    \/ Destroy
    \/ AssignCopy
    \/ AssignMove
    \/ SwapMachines
    \/ EngineTouch

SpecLife == InitLife /\ [][NextLife]_vars

----------------------------------------------------------------------------
(* Properties of Spec *)

RecognisedVectors == {5, 16, 17, 18, 19, 20, 21, 22, 23, 24, 25, 26}
DiskReads == {"readSectors", "extendedReadSectors"}
IsInt == last.kind = "int"
IsDiskRead == IsInt /\ last.fn \in DiskReads

\* the bytes guest memory holds at a..a+n-1 are the sequence b
MemHolds(m, a, b) == \A k \in 1..Len(b) : Peek(m, a + k - 1) = b[k]

\* C1: the callback returns true exactly for the vectors 0x05, 0x10..0x1A;
\* for such a vector it runs the handler of that vector and no other; for
\* any other vector it runs no handler, leaves registers and memory as the
\* guest set them and returns false.
C1_DispatcherRoutes ==
    IsInt =>
        /\ last.ret <=> last.vec \in RecognisedVectors
        /\ last.vec \in RecognisedVectors => last.handlers = <<last.vec>>
        /\ last.vec \notin RecognisedVectors =>
              /\ last.handlers = <<>>
              /\ ~last.ret
              /\ regs = last.inp
              /\ mem = last.memIn

C1_Witness ==
    /\ IsInt
    /\ last.vec = 26
    /\ last.ret
    /\ last.handlers = <<26>>

\* C2: after Machine( memory, fat ) and before start(), guest memory at
\* 0x7C00 holds sector 0 of the image, every other byte is zero and the
\* dispatcher is registered; start() begins execution at 0x7C00.
C2_BootSectorLoaded ==
    /\ ~started =>
          /\ \A k \in 0..(BootSectorSize - 1) :
                k < fat.len => Peek(mem, BootAddress + k) = ImgByte(fat, k)
          /\ \A a \in DOMAIN mem :
                a \in BootAddress..(BootAddress + BootSectorSize - 1)
          /\ registered
    /\ last.kind = "start" => last.vec = BootAddress

\* C3: a disk read (AH=02h or AH=42h) with DL # 0 returns with CF=1,
\* AH=0x01 and AL=0.
C3_WrongDriveFails ==
    (IsDiskRead /\ last.inp.dl # 0) =>
        /\ last.ret
        /\ regs.cf = 1
        /\ regs.ah = 1
        /\ regs.al = 0

\* C3 (amended): a disk read with DL # 0 returns with CF=1 and AH=0x01;
\* AH=02h also returns AL=0, AH=42h leaves AL as the guest set it.
C3_WrongDriveFailsAmended ==
    (IsDiskRead /\ last.inp.dl # 0) =>
        /\ last.ret
        /\ regs.cf = 1
        /\ regs.ah = 1
        /\ last.fn = "readSectors" => regs.al = 0
        /\ last.fn = "extendedReadSectors" => regs.al = last.inp.al

C3_Witness ==
    /\ IsDiskRead
    /\ last.fn = "extendedReadSectors"
    /\ last.inp.dl = 128
    /\ last.inp.al = 7
    /\ regs.cf = 1
    /\ regs.al = 7

\* C4: a successful INT 13h AH=02h stored AL * bytesPerSector bytes at
\* ES*16+BX, AL being the requested count, and they are the bytes of
\* Image.read( CH, DH, CL, AL ).
C4_SuccessWritesAllSectors ==
    (IsInt /\ last.fn = "readSectors" /\ last.ret /\ regs.cf = 0 /\ regs.ah = 0) =>
        /\ regs.al = last.inp.al
        /\ last.req = <<[kind |-> "chs", cylinder |-> last.inp.ch,
                         head |-> last.inp.dh, sector |-> last.inp.cl,
                         count |-> regs.al]>>
        /\ Len(last.wr) = 1
        /\ last.wr[1].dest = getAddress(last.inp.es, last.inp.bx)
        /\ last.wr[1].len = regs.al * ImageBytesPerSector(fat)
        /\ MemHolds(mem, last.wr[1].dest, last.res)

\* C5: INT 13h AH=02h with DL=0 whose image read came back with fewer than
\* sectors * bytesPerSector bytes returns CF=1, AH=1, AL=0.
C5_ShortReadFails ==
    (IsInt /\ last.fn = "readSectors" /\ last.inp.dl = 0
        /\ Len(last.res) < last.inp.al * ImageBytesPerSector(fat)) =>
        /\ regs.cf = 1
        /\ regs.ah = 1
        /\ regs.al = 0

\* C6: INT 13h AH=42h with DL=0 requests Image.read( LBA * bytesPerSector,
\* numberOfSectors * bytesPerSector ) for the DAP at DS:SI, bytesPerSector
\* the MBR value or 512; a non-empty result is stored at the DAP's
\* destination with CF=0, AH=0, an empty one gives CF=1, AH=1.
C6_ExtendedReadRequest ==
    (IsInt /\ last.fn = "extendedReadSectors" /\ last.inp.dl = 0) =>
        LET dap == ParseDAP(EngineRead(last.memIn,
                                       getAddress(last.inp.ds, last.inp.si),
                                       DAPDataSize))
            bps == IF fat.valid THEN fat.bytesPerSector ELSE DefaultBytesPerSector
        IN  /\ Len(last.req) = 1
            /\ MulExact(dap.logicalBlockAddress, bps)
            /\ last.req[1].offset = Mul64(dap.logicalBlockAddress, bps)
            /\ last.req[1].size = dap.numberOfSectors * bps
            /\ last.res # <<>> =>
                  /\ last.wr = <<[dest |-> getAddress(dap.destinationSegment,
                                                      dap.destinationOffset),
                                  len |-> Len(last.res)]>>
                  /\ MemHolds(mem, last.wr[1].dest, last.res)
                  /\ regs.cf = 0
                  /\ regs.ah = 0
            /\ last.res = <<>> => (regs.cf = 1 /\ regs.ah = 1)

\* C7: an INT 13h read that returns failure (CF=1) leaves every byte of
\* guest memory as it was when the call was made.
C7_FailureLeavesMemory ==
    (IsDiskRead /\ last.ret /\ regs.cf = 1) => mem = last.memIn

C7_Witness ==
    /\ IsDiskRead
    /\ last.fn = "extendedReadSectors"
    /\ last.inp.dl = 0
    /\ Len(last.req) = 1
    /\ regs.cf = 1
    /\ mem # EmptyMem

\* C8: every store a disk handler makes ends at or below the configured
\* memory size: destination + length <= memory.
C8_WritesInsideMemory ==
    IsInt => \A k \in 1..Len(last.wr) :
                last.wr[k].dest + last.wr[k].len <= memory

----------------------------------------------------------------------------
(* Properties of SpecLife *)

\* the Machine made by the last copy construction
CopyMade ==
    lastLife.op = "copy" =>
        LET ps == machines[lastLife.src].impl
            pd == machines[lastLife.dst].impl
        IN  /\ pd # 0
            /\ pd # ps
            /\ impls[pd].alive
            /\ impls[pd].memory = impls[ps].memory
            /\ impls[pd].fat = impls[ps].fat
            /\ impls[pd].engine # impls[ps].engine
            /\ engines[impls[pd].engine].alive
            /\ engines[impls[pd].engine].size = impls[ps].memory
            /\ engines[impls[pd].engine].cb = lastLife.dst

\* a change made through the engine of one Machine reaches no other Machine
TouchIsolated ==
    lastLife'.op = "touch" =>
        \A b \in 1..Len(machines) :
            (HasImpl(TheHeap, b) /\ b # lastLife'.src) =>
                engines'[EngineOf(TheHeap, b)] = engines[EngineOf(TheHeap, b)]

\* C9: a copy-constructed Machine has an engine of its own with the same
\* memory size, the same FAT image and a dispatcher registered on that
\* engine; a change made through one Machine's engine is not seen through
\* another's.
C9_CopyIsIndependent == [][CopyMade' /\ TouchIsolated]_vars

C9_Witness ==
    /\ lastLife.op = "copy"
    /\ HasImpl(TheHeap, lastLife.src)
    /\ HasImpl(TheHeap, lastLife.dst)
    /\ engines[EngineOf(TheHeap, lastLife.src)].data = 1
    /\ engines[EngineOf(TheHeap, lastLife.dst)].data = 0

\* C10: the Machine captured by the callback of every live engine is a
\* live Machine that owns that engine.
C10_CallbackOwner ==
    \A e \in 1..Len(engines) :
        engines[e].alive =>
            /\ engines[e].cb \in 1..Len(machines)
            /\ machines[engines[e].cb].alive
            /\ machines[engines[e].cb].impl # 0
            /\ impls[machines[engines[e].cb].impl].engine = e

====
